---- MODULE Spec2Model ----
(***************************************************************************)
(* Tiny To-Do (src/index.py): a command-line task list persisted as one    *)
(* JSON file.  Every command is one invocation of main(): it loads the     *)
(* whole file, mutates the list in memory and overwrites the whole file.   *)
(*                                                                         *)
(* Python strings are modelled as sequences of one-character strings and   *)
(* compared the way Python compares str values (code point by code point). *)
(* An Optional[str] is None (the empty tuple) or Some(s) (a 1-tuple).      *)
(***************************************************************************)
EXTENDS Integers, Sequences, FiniteSets, TLC

VARIABLES
    file,     \* the persisted file ~/.tiny_todo.json
    now,      \* the wall clock read by datetime.now() and date.today(): an index in Days
    res,      \* what the last invocation of main() did: exit code, output, I/O
    issued,   \* history: the greatest id any add has assigned so far
    inst      \* the instances of the tool running side by side (SpecConc): where
              \* each one is in main(), and what it computed from the file it read

vars == <<file, now, res, issued, inst>>

---------------------------------------------------------------------------
(* Bounds of the model *)

MaxTasks == 3      \* add is not explored on a store that already has this many tasks
MaxId    == 3      \* add is not explored once it would assign a greater id
MaxListTasks == 3  \* longest store the listing alone is explored on
MaxConcTasks == 1  \* longest store two instances are started on side by side

\* The calendar days the clock passes through, as <<year, month, day>>; every
\* invocation is taken to run at 00:00:00 of its day.
Days == << <<2024, 9, 30>>, <<2024, 10, 1>> >>

---------------------------------------------------------------------------
(* Python str values *)

Ord(c) ==
    CASE c = "\t" -> 9
      [] c = " " -> 32
      [] c = "-" -> 45
      [] c = "0" -> 48 [] c = "1" -> 49 [] c = "2" -> 50 [] c = "3" -> 51
      [] c = "4" -> 52 [] c = "5" -> 53 [] c = "6" -> 54 [] c = "7" -> 55
      [] c = "8" -> 56 [] c = "9" -> 57
      [] c = ":" -> 58
      [] c = "B" -> 66
      [] c = "T" -> 84
      [] c = "a" -> 97
      [] c = "i" -> 105 [] c = "k" -> 107 [] c = "l" -> 108 [] c = "m" -> 109
      [] c = "u" -> 117 [] c = "y" -> 121

\* a < b for two str values
StrLess(a, b) ==
    \E i \in 1..Len(b) :
        /\ \A j \in 1..(i - 1) : j <= Len(a) /\ a[j] = b[j]
        /\ (i > Len(a) \/ Ord(a[i]) < Ord(b[i]))

IsSpace(c) == c \in {" ", "\t"}

\* str.strip(): drop leading and trailing whitespace, keep the inside
strip(s) ==
    LET keep == {i \in 1..Len(s) : ~IsSpace(s[i])}
    IN  IF keep = {} THEN <<>>
        ELSE LET lo == CHOOSE i \in keep : \A j \in keep : i <= j
                 hi == CHOOSE i \in keep : \A j \in keep : j <= i
             IN  SubSeq(s, lo, hi)

None == <<>>
Some(s) == <<s>>

\* Python truthiness of an Optional[str]: None and "" are false
Truthy(o) == o # None /\ o[1] # <<>>

DigitChar(n) == <<"0", "1", "2", "3", "4", "5", "6", "7", "8", "9">>[n + 1]
Pad2(n) == <<DigitChar(n \div 10), DigitChar(n % 10)>>
Pad4(n) == Pad2(n \div 100) \o Pad2(n % 100)

\* date.isoformat(): always zero-padded YYYY-MM-DD
isoformat(d) == Pad4(d[1]) \o <<"-">> \o Pad2(d[2]) \o <<"-">> \o Pad2(d[3])

\* datetime.isoformat(timespec="seconds"): YYYY-MM-DDTHH:MM:SS
isoformat_seconds(d, sec) ==
    isoformat(d) \o <<"T">> \o Pad2(sec \div 3600) \o <<":">>
        \o Pad2((sec \div 60) % 60) \o <<":">> \o Pad2(sec % 60)

---------------------------------------------------------------------------
(* valid_date: datetime.strptime(s, "%Y-%m-%d") *)

IsDigit(c) == c \in {"0", "1", "2", "3", "4", "5", "6", "7", "8", "9"}

\* %m matches 1[0-2]|0[1-9]|[1-9]
MonthTokens == {Pad2(m) : m \in 1..12} \cup {<<DigitChar(m)>> : m \in 1..9}

\* %d matches 3[0-1]|[1-2]\d|0[1-9]|[1-9]| [1-9]
DayTokens ==
    {Pad2(d) : d \in 1..31} \cup {<<DigitChar(d)>> : d \in 1..9}
        \cup {<<" ", DigitChar(d)>> : d \in 1..9}

\* int() of a matched token
TokenVal(tok) ==
    LET v(c) == IF c = " " THEN 0 ELSE Ord(c) - 48
    IN  IF Len(tok) = 1 THEN v(tok[1])
        ELSE IF Len(tok) = 2 THEN 10 * v(tok[1]) + v(tok[2])
        ELSE 1000 * v(tok[1]) + 100 * v(tok[2]) + 10 * v(tok[3]) + v(tok[4])

IsLeap(y) == (y % 4 = 0 /\ y % 100 # 0) \/ y % 400 = 0

DaysInMonth(y, m) ==
    IF m = 2 THEN (IF IsLeap(y) THEN 29 ELSE 28)
    ELSE IF m \in {4, 6, 9, 11} THEN 30 ELSE 31

\* The result of strptime: ok = FALSE is ValueError, else the date it read.
strptime(s) ==
    LET ml == IF Len(s) >= 7 /\ s[7] = "-" THEN 1 ELSE 2
        shaped == /\ Len(s) >= 7 + ml
                  /\ \A i \in 1..4 : IsDigit(s[i])
                  /\ s[5] = "-"
                  /\ s[6 + ml] = "-"
                  /\ SubSeq(s, 6, 5 + ml) \in MonthTokens
                  /\ SubSeq(s, 7 + ml, Len(s)) \in DayTokens
    IN  IF ~shaped THEN [ok |-> FALSE, date |-> <<0, 0, 0>>]
        ELSE LET y == TokenVal(SubSeq(s, 1, 4))
                 m == TokenVal(SubSeq(s, 6, 5 + ml))
                 d == TokenVal(SubSeq(s, 7 + ml, Len(s)))
             IN  [ok |-> y >= 1 /\ d <= DaysInMonth(y, m), date |-> <<y, m, d>>]

\* valid_date returns its argument unchanged when strptime accepts it
valid_date(s) == [ok |-> strptime(s).ok, value |-> s]

---------------------------------------------------------------------------
(* The Task dataclass and the persisted file *)

Task(id, text, created, due, priority, done) ==
    [id |-> id, text |-> text, created |-> created, due |-> due,
     priority |-> priority, done |-> done]

RequiredFields == {"id", "text", "created"}
TaskFields == {"id", "text", "created", "due", "priority", "done"}

\* Task(**t): missing required field or unknown field raises TypeError
TaskAccepts(obj) == RequiredFields \subseteq DOMAIN obj /\ DOMAIN obj \subseteq TaskFields

\* Task(**t) that reads the required fields only
TaskFromDict_defaults(obj) == Task(obj.id, obj.text, obj.created, None, 3, FALSE)

\* Task(**t) for an accepted JSON object: absent optional fields take defaults
TaskFromDict(obj) ==
    Task(obj.id, obj.text, obj.created,
         IF "due" \in DOMAIN obj THEN obj.due ELSE None,
         IF "priority" \in DOMAIN obj THEN obj.priority ELSE 3,
         IF "done" \in DOMAIN obj THEN obj.done ELSE FALSE)

\* dataclasses.asdict(t): every field, due = None becomes JSON null
asdict(t) ==
    [id |-> t.id, text |-> t.text, created |-> t.created, due |-> t.due,
     priority |-> t.priority, done |-> t.done]

\* The file: absent, or present with content that is either not JSON or a
\* JSON array of objects.
MissingFile == [exists |-> FALSE, json |-> FALSE, data |-> <<>>]
NotJsonFile == [exists |-> TRUE, json |-> FALSE, data |-> <<>>]
JsonFile(objs) == [exists |-> TRUE, json |-> TRUE, data |-> objs]

\* load_tasks that drops what it cannot read instead of exiting
load_tasks_lenient(f) ==
    IF ~f.exists \/ ~f.json THEN [ok |-> TRUE, tasks |-> <<>>]
    ELSE LET good == SelectSeq(f.data, TaskAccepts)
         IN  [ok |-> TRUE, tasks |-> [i \in 1..Len(good) |-> TaskFromDict(good[i])]]

\* load_tasks: ok = FALSE is the sys.exit(2) branch
load_tasks(f) ==
    IF ~f.exists THEN [ok |-> TRUE, tasks |-> <<>>]
    ELSE IF ~f.json \/ \E i \in 1..Len(f.data) : ~TaskAccepts(f.data[i])
        THEN [ok |-> FALSE, tasks |-> <<>>]
    ELSE [ok |-> TRUE, tasks |-> [i \in 1..Len(f.data) |-> TaskFromDict(f.data[i])]]

save_tasks(tasks) == JsonFile([i \in 1..Len(tasks) |-> asdict(tasks[i])])

Max(S) == CHOOSE x \in S : \A y \in S : y <= x

\* next_id that counts the tasks instead of taking the greatest id
next_id_count(tasks) == Len(tasks) + 1

next_id(tasks) ==
    IF tasks = <<>> THEN 1 ELSE Max({tasks[i].id : i \in 1..Len(tasks)}) + 1

---------------------------------------------------------------------------
(* What one invocation reports *)

\* The parsed command line (argparse namespace); unused arguments keep these values
NoArgs ==
    [id |-> 0, view |-> "", clear_done |-> FALSE, clear_all |-> FALSE,
     text |-> <<>>, priority |-> 0, due |-> None]

\* exit: the process exit status; msg, new_id, rows: what was printed;
\* loads: calls of load_tasks (STORE.exists, and STORE.read_text if it exists);
\* saves: calls of save_tasks (STORE.write_text)
Result(cmd, arg) ==
    [cmd |-> cmd, arg |-> arg, exit |-> 0, msg |-> "", new_id |-> 0,
     rows |-> <<>>, loads |-> 0, saves |-> 0]

\* load_tasks' except branch: message on stderr, sys.exit(2), nothing written
Corrupted(cmd, arg) ==
    [Result(cmd, arg) EXCEPT !.exit = 2, !.msg = "Data file is corrupted", !.loads = 1]

\* argparse rejects the command line: parser.error() exits with status 2
UsageError(cmd, arg) ==
    [Result(cmd, arg) EXCEPT !.exit = 2, !.msg = "usage"]

---------------------------------------------------------------------------
(* The commands *)

AddArgs(text, priority, due) ==
    [NoArgs EXCEPT !.text = text, !.priority = priority, !.due = due]

\* add_task that stores the text as given
add_task_nostrip(f, clock, text, priority, due) ==
    LET l == load_tasks(f)
    IN  IF ~l.ok THEN [file |-> f, res |-> Corrupted("add", AddArgs(text, priority, due))]
        ELSE LET t == Task(next_id(l.tasks), text,
                           isoformat_seconds(Days[clock], 0),
                           due, priority, FALSE)
             IN  [file |-> save_tasks(Append(l.tasks, t)),
                  res |-> [Result("add", AddArgs(text, priority, due)) EXCEPT
                              !.msg = "Added", !.new_id = t.id, !.loads = 1, !.saves = 1]]

\* add_task that puts the new task first
add_task_prepend(f, clock, text, priority, due) ==
    LET l == load_tasks(f)
    IN  IF ~l.ok THEN [file |-> f, res |-> Corrupted("add", AddArgs(text, priority, due))]
        ELSE LET t == Task(next_id(l.tasks), strip(text),
                           isoformat_seconds(Days[clock], 0),
                           due, priority, FALSE)
             IN  [file |-> save_tasks(<<t>> \o l.tasks),
                  res |-> [Result("add", AddArgs(text, priority, due)) EXCEPT
                              !.msg = "Added", !.new_id = t.id, !.loads = 1, !.saves = 1]]

add_task(f, clock, text, priority, due) ==
    LET l == load_tasks(f)
    IN  IF ~l.ok THEN [file |-> f, res |-> Corrupted("add", AddArgs(text, priority, due))]
        ELSE LET t == Task(next_id(l.tasks), strip(text),
                           isoformat_seconds(Days[clock], 0),
                           due, priority, FALSE)
                 tasks == Append(l.tasks, t)
             IN  [file |-> save_tasks(tasks),
                  res |-> [Result("add", AddArgs(text, priority, due)) EXCEPT !.msg = "Added", !.new_id = t.id,
                                                   !.loads = 1, !.saves = 1]]

\* key(t) of list_tasks, and Python's tuple comparison k1 < k2
sort_key(t) ==
    <<t.done, t.priority, IF Truthy(t.due) THEN t.due[1] ELSE <<"9","9","9","9","-","1","2","-","3","1">>, t.created>>

KeyLess(k1, k2) ==
    \/ (~k1[1] /\ k2[1])
    \/ k1[1] = k2[1] /\ k1[2] < k2[2]
    \/ k1[1] = k2[1] /\ k1[2] = k2[2] /\ StrLess(k1[3], k2[3])
    \/ k1[1] = k2[1] /\ k1[2] = k2[2] /\ k1[3] = k2[3] /\ StrLess(k1[4], k2[4])

\* list.sort(key=key): stable, ascending
RECURSIVE sort(_)
sort(tasks) ==
    IF tasks = <<>> THEN <<>>
    ELSE LET n == Len(tasks)
             t == tasks[n]
             front == sort(SubSeq(tasks, 1, n - 1))
             k == Cardinality({i \in 1..(n - 1) : ~KeyLess(sort_key(t), sort_key(front[i]))})
         IN  SubSeq(front, 1, k) \o <<t>> \o SubSeq(front, k + 1, n - 1)

\* filter that shows every task in every view
filter_all(tasks, view) == tasks

filter(tasks, view) ==
    IF view = "open" THEN SelectSeq(tasks, LAMBDA t : ~t.done)
    ELSE IF view = "done" THEN SelectSeq(tasks, LAMBDA t : t.done)
    ELSE tasks

status(t, today) ==
    IF t.done THEN "done"
    ELSE IF Truthy(t.due) /\ StrLess(t.due[1], today) THEN "OVERDUE"
    ELSE "open"

\* one printed line: id, priority, due column, status, text
row(t, today) ==
    [id |-> t.id, priority |-> t.priority,
     due |-> IF Truthy(t.due) THEN t.due[1] ELSE <<>>,
     status |-> status(t, today), text |-> t.text]

\* list_tasks that writes back the list it sorted
list_tasks_persist(f, clock, view) ==
    LET l == load_tasks(f)
    IN  IF ~l.ok THEN [file |-> f, res |-> Corrupted("list", [NoArgs EXCEPT !.view = view])]
        ELSE LET tasks == sort(filter(l.tasks, view))
                 today == isoformat(Days[clock])
             IN  [file |-> save_tasks(tasks),
                  res |-> [Result("list", [NoArgs EXCEPT !.view = view]) EXCEPT
                              !.msg = IF tasks = <<>> THEN "No tasks to show." ELSE "listing",
                              !.loads = 1,
                              !.rows = [i \in 1..Len(tasks) |-> row(tasks[i], today)]]]

list_tasks(f, clock, view) ==
    LET l == load_tasks(f)
    IN  IF ~l.ok THEN [file |-> f, res |-> Corrupted("list", [NoArgs EXCEPT !.view = view])]
        ELSE LET tasks == sort(filter(l.tasks, view))
                 today == isoformat(Days[clock])
             IN  IF tasks = <<>>
                 THEN [file |-> f,
                       res |-> [Result("list", [NoArgs EXCEPT !.view = view]) EXCEPT !.msg = "No tasks to show.", !.loads = 1]]
                 ELSE [file |-> f,
                       res |-> [Result("list", [NoArgs EXCEPT !.view = view]) EXCEPT
                                   !.msg = "listing", !.loads = 1,
                                   !.rows = [i \in 1..Len(tasks) |-> row(tasks[i], today)]]]

\* mark_done that sets and saves without looking at the flag
mark_done_always(f, task_id) ==
    LET l == load_tasks(f)
    IN  IF ~l.ok THEN [file |-> f, res |-> Corrupted("done", [NoArgs EXCEPT !.id = task_id])]
        ELSE LET hits == {i \in 1..Len(l.tasks) : l.tasks[i].id = task_id}
             IN  IF hits = {}
                 THEN [file |-> f,
                       res |-> [Result("done", [NoArgs EXCEPT !.id = task_id]) EXCEPT !.exit = 1, !.msg = "not found", !.loads = 1]]
                 ELSE LET i == CHOOSE h \in hits : \A g \in hits : h <= g
                      IN  [file |-> save_tasks([l.tasks EXCEPT ![i].done = TRUE]),
                           res |-> [Result("done", [NoArgs EXCEPT !.id = task_id]) EXCEPT
                                       !.msg = "Marked done", !.loads = 1, !.saves = 1]]

\* mark_done that flips the flag
mark_done_toggle(f, task_id) ==
    LET l == load_tasks(f)
    IN  IF ~l.ok THEN [file |-> f, res |-> Corrupted("done", [NoArgs EXCEPT !.id = task_id])]
        ELSE LET hits == {i \in 1..Len(l.tasks) : l.tasks[i].id = task_id}
             IN  IF hits = {}
                 THEN [file |-> f,
                       res |-> [Result("done", [NoArgs EXCEPT !.id = task_id]) EXCEPT !.exit = 1, !.msg = "not found", !.loads = 1]]
                 ELSE LET i == CHOOSE h \in hits : \A g \in hits : h <= g
                      IN  [file |-> save_tasks([l.tasks EXCEPT ![i].done = ~@]),
                           res |-> [Result("done", [NoArgs EXCEPT !.id = task_id]) EXCEPT
                                       !.msg = "Marked done", !.loads = 1, !.saves = 1]]

mark_done(f, task_id) ==
    LET l == load_tasks(f)
    IN  IF ~l.ok THEN [file |-> f, res |-> Corrupted("done", [NoArgs EXCEPT !.id = task_id])]
        ELSE LET hits == {i \in 1..Len(l.tasks) : l.tasks[i].id = task_id}
             IN  IF hits = {}
                 THEN [file |-> f,
                       res |-> [Result("done", [NoArgs EXCEPT !.id = task_id]) EXCEPT !.exit = 1, !.msg = "not found", !.loads = 1]]
                 ELSE LET i == CHOOSE h \in hits : \A g \in hits : h <= g
                      IN  IF l.tasks[i].done
                          THEN [file |-> f,
                                res |-> [Result("done", [NoArgs EXCEPT !.id = task_id]) EXCEPT !.msg = "already done", !.loads = 1]]
                          ELSE [file |-> save_tasks([l.tasks EXCEPT ![i].done = TRUE]),
                                res |-> [Result("done", [NoArgs EXCEPT !.id = task_id]) EXCEPT
                                            !.msg = "Marked done", !.loads = 1, !.saves = 1]]

\* delete_task without the length comparison: always saves and reports success
delete_task_unchecked(f, task_id) ==
    LET l == load_tasks(f)
    IN  IF ~l.ok THEN [file |-> f, res |-> Corrupted("delete", [NoArgs EXCEPT !.id = task_id])]
        ELSE [file |-> save_tasks(SelectSeq(l.tasks, LAMBDA t : t.id # task_id)),
              res |-> [Result("delete", [NoArgs EXCEPT !.id = task_id]) EXCEPT
                          !.msg = "Deleted", !.loads = 1, !.saves = 1]]

\* delete_task that renumbers the tasks it keeps
delete_task_renumber(f, task_id) ==
    LET l == load_tasks(f)
    IN  IF ~l.ok THEN [file |-> f, res |-> Corrupted("delete", [NoArgs EXCEPT !.id = task_id])]
        ELSE LET new == SelectSeq(l.tasks, LAMBDA t : t.id # task_id)
             IN  IF Len(new) = Len(l.tasks)
                 THEN [file |-> f,
                       res |-> [Result("delete", [NoArgs EXCEPT !.id = task_id]) EXCEPT !.exit = 1, !.msg = "not found", !.loads = 1]]
                 ELSE [file |-> save_tasks([i \in 1..Len(new) |-> [new[i] EXCEPT !.id = i]]),
                       res |-> [Result("delete", [NoArgs EXCEPT !.id = task_id]) EXCEPT
                                   !.msg = "Deleted", !.loads = 1, !.saves = 1]]

\* delete_task that saves before it compares the lengths
delete_task_save_first(f, task_id) ==
    LET l == load_tasks(f)
    IN  IF ~l.ok THEN [file |-> f, res |-> Corrupted("delete", [NoArgs EXCEPT !.id = task_id])]
        ELSE LET new == SelectSeq(l.tasks, LAMBDA t : t.id # task_id)
             IN  IF Len(new) = Len(l.tasks)
                 THEN [file |-> save_tasks(new),
                       res |-> [Result("delete", [NoArgs EXCEPT !.id = task_id]) EXCEPT
                                   !.exit = 1, !.msg = "not found", !.loads = 1, !.saves = 1]]
                 ELSE [file |-> save_tasks(new),
                       res |-> [Result("delete", [NoArgs EXCEPT !.id = task_id]) EXCEPT
                                   !.msg = "Deleted", !.loads = 1, !.saves = 1]]

delete_task(f, task_id) ==
    LET l == load_tasks(f)
    IN  IF ~l.ok THEN [file |-> f, res |-> Corrupted("delete", [NoArgs EXCEPT !.id = task_id])]
        ELSE LET new == SelectSeq(l.tasks, LAMBDA t : t.id # task_id)
             IN  IF Len(new) = Len(l.tasks)
                 THEN [file |-> f,
                       res |-> [Result("delete", [NoArgs EXCEPT !.id = task_id]) EXCEPT !.exit = 1, !.msg = "not found", !.loads = 1]]
                 ELSE [file |-> save_tasks(new),
                       res |-> [Result("delete", [NoArgs EXCEPT !.id = task_id]) EXCEPT
                                   !.msg = "Deleted", !.loads = 1, !.saves = 1]]

\* clear_tasks whose --done keeps the completed tasks instead of the open ones
clear_tasks_keep_done(f, clear_done, clear_all) ==
    LET l == load_tasks(f)
        arg == [NoArgs EXCEPT !.clear_done = clear_done, !.clear_all = clear_all]
    IN  IF ~l.ok THEN [file |-> f, res |-> Corrupted("clear", arg)]
        ELSE IF clear_all
            THEN [file |-> save_tasks(<<>>),
                  res |-> [Result("clear", arg) EXCEPT !.msg = "Cleared ALL tasks.", !.loads = 1, !.saves = 1]]
        ELSE IF clear_done
            THEN [file |-> save_tasks(SelectSeq(l.tasks, LAMBDA t : t.done)),
                  res |-> [Result("clear", arg) EXCEPT !.msg = "Cleared completed tasks.", !.loads = 1, !.saves = 1]]
        ELSE [file |-> f,
              res |-> [Result("clear", arg) EXCEPT !.msg = "Nothing to do. Use --done or --all.", !.loads = 1]]

clear_tasks(f, clear_done, clear_all) ==
    LET l == load_tasks(f)
        arg == [NoArgs EXCEPT !.clear_done = clear_done, !.clear_all = clear_all]
    IN  IF ~l.ok THEN [file |-> f, res |-> Corrupted("clear", arg)]
        ELSE IF clear_all
            THEN [file |-> save_tasks(<<>>),
                  res |-> [Result("clear", arg) EXCEPT !.msg = "Cleared ALL tasks.", !.loads = 1, !.saves = 1]]
        ELSE IF clear_done
            THEN [file |-> save_tasks(SelectSeq(l.tasks, LAMBDA t : ~t.done)),
                  res |-> [Result("clear", arg) EXCEPT !.msg = "Cleared completed tasks.", !.loads = 1, !.saves = 1]]
        ELSE [file |-> f,
              res |-> [Result("clear", arg) EXCEPT !.msg = "Nothing to do. Use --done or --all.", !.loads = 1]]

---------------------------------------------------------------------------
(* Inputs explored *)

BuyMilk == <<"B", "u", "y", " ", "m", "i", "l", "k">>
Date2099 == <<"2", "0", "9", "9", "-", "0", "1", "-", "0", "1">>

\* Command lines of "add" that argparse accepts ...
AddInputs ==
    { [text |-> BuyMilk, priority |-> 2, due |-> Some(Date2099)],
      [text |-> <<" ", "a", "\t">>, priority |-> 5, due |-> None],
      [text |-> <<" ">>, priority |-> 1, due |-> None] }

\* ... and that it rejects: priority out of range, 30 February
BadAddInputs ==
    { [text |-> <<"a">>, priority |-> 6, due |-> None],
      [text |-> <<"a">>, priority |-> 3,
       due |-> Some(<<"2", "0", "2", "4", "-", "0", "2", "-", "3", "0">>)] }

\* Stored tasks the listing is explored on: the above, and tasks of one
\* priority that differ in their due date only (none, zero-padded, not
\* zero-padded, the last day strptime accepts)
ListInputs ==
    AddInputs \cup
    { [text |-> <<"a">>, priority |-> 3, due |-> None],
      [text |-> <<"a">>, priority |-> 3,
       due |-> Some(<<"2", "0", "2", "4", "-", "0", "9", "-", "3", "0">>)],
      [text |-> <<"a">>, priority |-> 3,
       due |-> Some(<<"2", "0", "2", "4", "-", "9", "-", "3", "0">>)],
      [text |-> <<"a">>, priority |-> 3,
       due |-> Some(<<"9", "9", "9", "9", "-", "1", "2", "-", "3", "1">>)] }

IdInputs == 0..MaxId

ViewInputs == {"open", "done", "all"}

\* A file some other program or the user left behind
InitFiles ==
    { MissingFile,
      JsonFile(<<>>),
      NotJsonFile,
      JsonFile(<< [id |-> 1, text |-> <<"a">>] >>) }

---------------------------------------------------------------------------
(* The state machine: one step is one run of main() *)

\* The separately launched instances of the tool
Procs == {1, 2}

\* An instance that has not been launched
NotStarted ==
    [pc |-> "start", read |-> MissingFile,
     out |-> [file |-> MissingFile, res |-> Result("", NoArgs)]]

Init ==
    /\ file \in InitFiles
    /\ now = 1
    /\ res = Result("", NoArgs)
    /\ issued = 0
    /\ inst = [p \in Procs |-> NotStarted]

\* argparse: -p has type=int, choices=range(1,6); -d has type=valid_date
ArgsAccepted(priority, due) ==
    /\ priority \in 1..5
    /\ due # None => valid_date(due[1]).ok

Add(text, priority, due) ==
    /\ UNCHANGED <<now, inst>>
    /\ IF ~ArgsAccepted(priority, due)
       THEN /\ res' = UsageError("add", AddArgs(text, priority, due))
            /\ UNCHANGED <<file, issued>>
       ELSE LET l == load_tasks(file)
                r == add_task(file, now, text, priority, due)
            IN  /\ l.ok => Len(l.tasks) < MaxTasks /\ next_id(l.tasks) <= MaxId
                /\ file' = r.file
                /\ res' = r.res
                /\ issued' = IF r.res.new_id > issued THEN r.res.new_id ELSE issued

List(view) ==
    LET r == list_tasks(file, now, view)
    IN  file' = r.file /\ res' = r.res /\ UNCHANGED <<now, issued, inst>>

Done(task_id) ==
    LET r == mark_done(file, task_id)
    IN  file' = r.file /\ res' = r.res /\ UNCHANGED <<now, issued, inst>>

Delete(task_id) ==
    LET r == delete_task(file, task_id)
    IN  file' = r.file /\ res' = r.res /\ UNCHANGED <<now, issued, inst>>

Clear(clear_done, clear_all) ==
    LET r == clear_tasks(file, clear_done, clear_all)
    IN  file' = r.file /\ res' = r.res /\ UNCHANGED <<now, issued, inst>>

Next ==
    \/ \E a \in AddInputs \cup BadAddInputs : Add(a.text, a.priority, a.due)
    \/ \E view \in ViewInputs : List(view)
    \/ \E task_id \in IdInputs : Done(task_id)
    \/ \E task_id \in IdInputs : Delete(task_id)
    \/ \E clear_done \in BOOLEAN, clear_all \in BOOLEAN : Clear(clear_done, clear_all)

\* Every invocation on the first day: the day of an invocation matters to the
\* listing only, which SpecList explores day by day.
Spec == Init /\ [][Next]_vars

(* The listing on its own: list_tasks applied to every store of up to
   MaxListTasks tasks that add and done can have produced on the first day,
   on that day and on the days after it *)

StoreOf(f) ==
    [i \in 1..Len(f) |->
        Task(i, strip(f[i][1].text), isoformat_seconds(Days[1], 0),
             f[i][1].due, f[i][1].priority, f[i][2])]

InitList ==
    /\ \E n \in 0..MaxListTasks :
           \E f \in [1..n -> ListInputs \X BOOLEAN] :
               /\ file = save_tasks(StoreOf(f))
               /\ issued = n
    /\ now = 1
    /\ res = Result("", NoArgs)
    /\ inst = [p \in Procs |-> NotStarted]

\* Midnight passes between two invocations
Tick ==
    /\ now < Len(Days)
    /\ now' = now + 1
    /\ UNCHANGED <<file, res, issued, inst>>

NextList ==
    \/ \E view \in ViewInputs : List(view)
    \/ Tick

SpecList == InitList /\ [][NextList]_vars

(* Two instances side by side on one file.  An instance is one run of
   main(): load_tasks reads the file (STORE.read_text), the command computes
   the new list from what was read, and save_tasks writes it back with
   STORE.write_text, which opens the file with mode "w", truncating it to
   0 bytes, and writes the text from offset 0 when it closes the file.  The
   steps of an instance are therefore: Load, Open, Write; it can be killed
   after any of them. *)

\* Decimal digits of n >= 0
RECURSIVE Digits(_)
Digits(n) == IF n < 10 THEN 1 ELSE 1 + Digits(n \div 10)

\* Characters json.dumps writes for a str: the quotes, and two characters for
\* a tab, a quote or a backslash
EscLen(c) == IF c \in {"\t", "\"", "\\"} THEN 2 ELSE 1

RECURSIVE SumEscLen(_)
SumEscLen(s) == IF s = <<>> THEN 0 ELSE EscLen(Head(s)) + SumEscLen(Tail(s))

StrDumpLen(s) == 2 + SumEscLen(s)

\* Characters of one task in json.dumps(..., indent=2): "  {", six lines
\* '    "key": value' separated by ",", "  }"
ObjDumpLen(o) ==
    4 + 10 + 4 + 76
    + Digits(o.id) + StrDumpLen(o.text) + StrDumpLen(o.created)
    + (IF o.due = None THEN 4 ELSE StrDumpLen(o.due[1]))
    + Digits(o.priority) + (IF o.done THEN 4 ELSE 5)

RECURSIVE SumObjDumpLen(_)
SumObjDumpLen(objs) ==
    IF objs = <<>> THEN 0 ELSE ObjDumpLen(Head(objs)) + SumObjDumpLen(Tail(objs))

\* Characters of json.dumps([asdict(t) for t in tasks], indent=2)
DumpLen(objs) ==
    IF objs = <<>> THEN 2
    ELSE 2 + SumObjDumpLen(objs) + 2 * (Len(objs) - 1) + 2

\* A file of n bytes that is not a JSON document
Bytes(n) == [exists |-> TRUE, json |-> FALSE, data |-> <<>>, size |-> n]

Size(f) ==
    IF ~f.exists THEN 0
    ELSE IF f.json THEN DumpLen(f.data)
    ELSE f.size

\* open(mode="w"): the file is created or truncated
open_w(f) == Bytes(0)

\* write and close on a descriptor opened at offset 0: the text replaces the
\* first Size(text) bytes of the file; what another descriptor wrote beyond
\* them stays, after the closing bracket of the text
write(f, text) == IF Size(text) >= Size(f) THEN text ELSE Bytes(Size(f))

\* Command lines the two instances are started with
ConcInputs ==
    { [cmd |-> "add", arg |-> AddArgs(a.text, a.priority, a.due)] : a \in AddInputs }
    \cup { [cmd |-> "done", arg |-> [NoArgs EXCEPT !.id = 1]],
           [cmd |-> "delete", arg |-> [NoArgs EXCEPT !.id = 1]],
           [cmd |-> "clear", arg |-> [NoArgs EXCEPT !.clear_done = TRUE]] }

\* main(): the command applied to the content f that load_tasks read
main(f, clock, c) ==
    CASE c.cmd = "add" -> add_task(f, clock, c.arg.text, c.arg.priority, c.arg.due)
      [] c.cmd = "done" -> mark_done(f, c.arg.id)
      [] c.cmd = "delete" -> delete_task(f, c.arg.id)
      [] c.cmd = "clear" -> clear_tasks(f, c.arg.clear_done, c.arg.clear_all)

InitConc ==
    /\ \/ file = MissingFile
       \/ \E n \in 0..MaxConcTasks :
              \E f \in [1..n -> AddInputs \X BOOLEAN] : file = save_tasks(StoreOf(f))
    /\ now = 1
    /\ res = Result("", NoArgs)
    /\ issued = 0
    /\ inst = [p \in Procs |-> NotStarted]

\* Instance p runs up to the call of save_tasks, or to its exit if the command
\* does not save
Load(p, c) ==
    /\ inst[p].pc = "start"
    /\ LET r == main(file, now, c)
       IN  IF r.res.saves = 0
           THEN /\ inst' = [inst EXCEPT ![p] = [pc |-> "exited", read |-> file, out |-> r]]
                /\ res' = r.res
           ELSE /\ inst' = [inst EXCEPT ![p] = [pc |-> "loaded", read |-> file, out |-> r]]
                /\ res' = res
    /\ UNCHANGED <<file, now, issued>>

\* write_text opens the file
Open(p) ==
    /\ inst[p].pc = "loaded"
    /\ inst' = [inst EXCEPT ![p].pc = "opened"]
    /\ file' = open_w(file)
    /\ UNCHANGED <<now, res, issued>>

\* write_text writes and closes; the command prints its message and exits
Write(p) ==
    /\ inst[p].pc = "opened"
    /\ inst' = [inst EXCEPT ![p].pc = "exited"]
    /\ file' = write(file, inst[p].out.file)
    /\ res' = inst[p].out.res
    /\ UNCHANGED <<now, issued>>

\* Instance p is killed
Crash(p) ==
    /\ inst[p].pc \in {"loaded", "opened"}
    /\ inst' = [inst EXCEPT ![p].pc = "crashed"]
    /\ UNCHANGED <<file, now, res, issued>>

NextConc ==
    \/ \E p \in Procs, c \in ConcInputs : Load(p, c)
    \/ \E p \in Procs : Open(p)
    \/ \E p \in Procs : Write(p)
    \/ \E p \in Procs : Crash(p)

SpecConc == InitConc /\ [][NextConc]_vars

---------------------------------------------------------------------------
(* Vocabulary of the properties *)

\* The tasks a load of file f returns
Stored(f) == load_tasks(f).tasks

Readable(f) == load_tasks(f).ok

\* The file exists and is not JSON, or holds a record lacking a required field
CorruptFile(f) ==
    /\ f.exists
    /\ ~f.json \/ \E i \in 1..Len(f.data) : ~(RequiredFields \subseteq DOMAIN f.data[i])

IdsOf(tasks) == {tasks[i].id : i \in 1..Len(tasks)}

\* This step is a run of command cmd (a repeated run that changes nothing at
\* all is a stuttering step)
Ran(cmd) == res'.cmd = cmd /\ (res' # res \/ file' # file)

---------------------------------------------------------------------------
(* C1: over any history of add and delete, every id add assigns is greater
   than every id an earlier add assigned (ids strictly increase and are
   never assigned twice), also after the task with the greatest id was
   deleted. *)
C1_IdsNeverReused ==
    [][(Ran("add") /\ res'.exit = 0) => res'.new_id > issued]_vars

(* C2: from an empty or missing store, after any sequence of commands no two
   stored tasks have the same id, and the id the next add would assign is
   greater than every id present. *)
C2_UniqueIds ==
    Readable(file) =>
        LET tasks == Stored(file)
        IN  /\ \A i, j \in 1..Len(tasks) : i # j => tasks[i].id # tasks[j].id
            /\ \A i \in 1..Len(tasks) : tasks[i].id < next_id(tasks) /\ tasks[i].id >= 1

\* after a deletion left a store that no longer starts at id 1, an add has
\* just appended a task to it
C2_Witness ==
    /\ res.cmd = "add" /\ res.exit = 0
    /\ Readable(file)
    /\ Len(Stored(file)) >= 2
    /\ Stored(file)[1].id > 1
    /\ Stored(file)[Len(Stored(file))].id = res.new_id

(* C3: done and delete of an id no stored task has exit with status 1
   ("not found") without saving, the file after the call being the file
   before it; delete of a stored id succeeds, and a second delete of the
   same id is then not found. *)
C3_NotFound ==
    [][\A cmd \in {"done", "delete"} :
          (Ran(cmd) /\ Readable(file)) =>
              IF res'.arg.id \in IdsOf(Stored(file))
              THEN /\ res'.exit = 0
                   /\ cmd = "delete" => res'.arg.id \notin IdsOf(Stored(file'))
              ELSE /\ res'.exit = 1
                   /\ res'.msg = "not found"
                   /\ res'.saves = 0
                   /\ file' = file]_vars

\* task 1 was added, is gone again, and delete 1 has just failed
C3_Witness ==
    /\ res.cmd = "delete" /\ res.arg.id = 1
    /\ res.exit = 1 /\ res.msg = "not found"
    /\ issued >= 1
    /\ file = JsonFile(<<>>)

(* C4: on a file that exists but is corrupt (not JSON, or a record lacking a
   required field) add, list, done, delete and clear with a flag exit with
   status 2 and leave the file as it was. *)
C4_CorruptExits2 ==
    [][\A cmd \in {"add", "list", "done", "delete", "clear"} :
          (/\ Ran(cmd)
           /\ CorruptFile(file)
           /\ cmd = "clear" => (res'.arg.clear_done \/ res'.arg.clear_all))
          => /\ res'.exit = 2
             /\ res'.saves = 0
             /\ file' = file]_vars

\* an accepted add has just hit a JSON file with a record lacking a field
C4_Witness ==
    /\ CorruptFile(file) /\ file.json
    /\ res.cmd = "add" /\ res.arg.priority \in 1..5
    /\ res.exit = 2 /\ res.msg = "Data file is corrupted"

(* C5: clear with neither flag does not access the file (no load, no save),
   leaves it unchanged and only tells the caller that a flag is needed,
   whatever the file holds, a corrupt file included. *)
C5_ClearNoneNoIO ==
    [][(Ran("clear") /\ ~res'.arg.clear_done /\ ~res'.arg.clear_all) =>
          /\ res'.loads = 0
          /\ res'.saves = 0
          /\ file' = file
          /\ res'.exit = 0
          /\ res'.msg = "Nothing to do. Use --done or --all."]_vars

(* C6: done on a stored task that is already done exits with status 0,
   reports "already done" and does not save, the file staying as it was; so
   done applied twice leaves the file that done applied once leaves. *)
C6_DoneIdempotent ==
    [][/\ (/\ Ran("done")
           /\ Readable(file)
           /\ \E i \in 1..Len(Stored(file)) :
                  Stored(file)[i].id = res'.arg.id /\ Stored(file)[i].done)
          => /\ res'.exit = 0
             /\ res'.msg = "already done"
             /\ res'.saves = 0
             /\ file' = file
       /\ (Ran("done") /\ res'.exit = 0)
          => LET again == mark_done(file', res'.arg.id)
             IN  /\ again.file = file'
                 /\ again.res.exit = 0
                 /\ again.res.msg = "already done"]_vars

C6_Witness ==
    /\ res.cmd = "done" /\ res.exit = 0 /\ res.msg = "already done"
    /\ \E i \in 1..Len(Stored(file)) :
           Stored(file)[i].id = res.arg.id /\ Stored(file)[i].done

(* C7: delete of a stored id removes exactly that task and saves: the store
   is one shorter, and every other task is still there with its id and all
   its fields, in the same relative order. *)
C7_DeleteExactlyOne ==
    [][(Ran("delete") /\ Readable(file) /\ res'.arg.id \in IdsOf(Stored(file))) =>
          LET old == Stored(file)
              new == Stored(file')
          IN  /\ res'.exit = 0
              /\ res'.saves = 1
              /\ Readable(file')
              /\ Len(new) = Len(old) - 1
              /\ \E k \in 1..Len(old) :
                     /\ old[k].id = res'.arg.id
                     /\ \A i \in 1..Len(new) :
                            new[i] = IF i < k THEN old[i] ELSE old[i + 1]]_vars

\* the middle one of three tasks has just been deleted
C7_Witness ==
    /\ res.cmd = "delete" /\ res.exit = 0
    /\ Len(Stored(file)) = 2
    /\ Stored(file)[1].id < res.arg.id
    /\ res.arg.id < Stored(file)[2].id

\* out is raw without its leading and trailing whitespace
Trimmed(raw, out) ==
    /\ out # <<>> => ~IsSpace(out[1]) /\ ~IsSpace(out[Len(out)])
    /\ \E lo \in 1..(Len(raw) + 1) :
           /\ lo + Len(out) - 1 <= Len(raw)
           /\ out = SubSeq(raw, lo, lo + Len(out) - 1)
           /\ \A i \in 1..Len(raw) :
                  (i < lo \/ i >= lo + Len(out)) => IsSpace(raw[i])

BuyMilkRow ==
    [id |-> 1, priority |-> 2, due |-> Date2099, status |-> "open", text |-> BuyMilk]

(* C8: add on a readable store appends exactly one task at the end, with
   id = next_id of the loaded store, the trimmed text, the given priority
   and due (no due stays no due) and done = false, all earlier tasks staying
   as and where they were.  On an empty store add "Buy milk" -p 2
   -d 2099-01-01 and then list --open shows exactly one row: id 1,
   priority 2, due 2099-01-01, status open. *)
C8_AddAppends ==
    [][(Ran("add") /\ res'.exit = 0) =>
          LET old == Stored(file)
              new == Stored(file')
              t == new[Len(new)]
          IN  /\ Readable(file')
              /\ Len(new) = Len(old) + 1
              /\ \A i \in 1..Len(old) : new[i] = old[i]
              /\ t.id = next_id(old)
              /\ t.id = res'.new_id
              /\ Trimmed(res'.arg.text, t.text)
              /\ t.priority = res'.arg.priority
              /\ t.due = res'.arg.due
              /\ t.done = FALSE
              /\ t.created = isoformat_seconds(Days[now], 0)
              /\ res'.saves = 1
              /\ (old = <<>> /\ res'.arg = AddArgs(BuyMilk, 2, Some(Date2099)))
                     => list_tasks(file', now', "open").res.rows = <<BuyMilkRow>>]_vars

\* the first add ever was "Buy milk", and list --open has just shown it
C8_Witness ==
    /\ res.cmd = "list" /\ res.arg.view = "open"
    /\ res.rows = <<BuyMilkRow>>
    /\ issued = 1
    /\ Len(Stored(file)) = 1

---------------------------------------------------------------------------
(* The listing, as the calendar sees it *)

\* The calendar date a stored due string denotes
DateOf(due) == strptime(due[1]).date

\* calendar date a is strictly earlier than calendar date b
DateLess(a, b) ==
    \/ a[1] < b[1]
    \/ a[1] = b[1] /\ a[2] < b[2]
    \/ a[1] = b[1] /\ a[2] = b[2] /\ a[3] < b[3]

\* due x sorts before due y: a date before a later date, any date before none
DueBefore(x, y) == x # None /\ (y = None \/ DateLess(DateOf(x), DateOf(y)))

DueSame(x, y) == ~DueBefore(x, y) /\ ~DueBefore(y, x)

\* task a is strictly before task b in the order of the listing
ListedBefore(a, b) ==
    \/ ~a.done /\ b.done
    \/ a.done = b.done /\ a.priority < b.priority
    \/ a.done = b.done /\ a.priority = b.priority /\ DueBefore(a.due, b.due)
    \/ a.done = b.done /\ a.priority = b.priority /\ DueSame(a.due, b.due)
           /\ StrLess(a.created, b.created)

\* the position in the persisted file of the task with this id
PositionOf(task_id) == CHOOSE i \in 1..Len(Stored(file)) : Stored(file)[i].id = task_id

(* C9: list shows the tasks in ascending order of (completion flag with open
   first, priority, due date, created), a task without due date after every
   dated task of the same flag and priority, for every date the command line
   accepts; tasks equal on the whole key keep their persisted order.  So
   priorities 5, 1, 3 without due dates are listed 1, 3, 5. *)
C9_ListSorted ==
    (res.cmd = "list" /\ res.msg = "listing") =>
        \A i, j \in 1..Len(res.rows) :
            i < j =>
                LET pa == PositionOf(res.rows[i].id)
                    pb == PositionOf(res.rows[j].id)
                    a == Stored(file)[pa]
                    b == Stored(file)[pb]
                IN  /\ ~ListedBefore(b, a)
                    /\ ~ListedBefore(a, b) => pa < pb

(* C10: list shows "done" for every done task whatever its due date,
   otherwise "OVERDUE" exactly when the task has a due date strictly earlier
   than today's calendar date, otherwise "open" (no due date, or due today
   or later), for every due string the command line accepts. *)
C10_StatusDerived ==
    [][(Ran("list") /\ res'.msg = "listing") =>
          \A i \in 1..Len(res'.rows) :
              LET t == Stored(file)[PositionOf(res'.rows[i].id)]
              IN  res'.rows[i].status =
                      IF t.done THEN "done"
                      ELSE IF t.due # None /\ DateLess(DateOf(t.due), Days[now]) THEN "OVERDUE"
                      ELSE "open"]_vars

---------------------------------------------------------------------------
(* C11: list is read-only in every view and on every file: it never writes,
   so content and order of the file after list are those before it (the
   sorted order is shown, not stored), and list on a missing file does not
   create it. *)
C11_ListReadOnly ==
    [][Ran("list") => file' = file /\ res'.saves = 0]_vars

\* list has just shown two tasks in the reverse of their order in the file
C11_Witness ==
    /\ res.cmd = "list" /\ res.msg = "listing"
    /\ Len(res.rows) >= 2
    /\ res.rows[1].id > res.rows[2].id
    /\ PositionOf(res.rows[1].id) > PositionOf(res.rows[2].id)

\* the tasks of the store that view shows
Matches(t, view) ==
    \/ view = "all"
    \/ view = "open" /\ ~t.done
    \/ view = "done" /\ t.done

(* C12: list --open shows exactly the tasks with done = false, list --done
   exactly those with done = true, list --all every task: each matching
   task once, no other task. *)
C12_ViewsFilter ==
    [][(Ran("list") /\ Readable(file)) =>
          LET tasks == Stored(file)
              want == {i \in 1..Len(tasks) : Matches(tasks[i], res'.arg.view)}
          IN  /\ Len(res'.rows) = Cardinality(want)
              /\ \A i \in want :
                     \E k \in 1..Len(res'.rows) :
                         /\ res'.rows[k].id = tasks[i].id
                         /\ res'.rows[k].text = tasks[i].text
                         /\ res'.rows[k].priority = tasks[i].priority
                         /\ \A m \in 1..Len(res'.rows) :
                                res'.rows[m].id = tasks[i].id => m = k
              /\ want = {} <=> res'.msg = "No tasks to show."]_vars

\* list --done has just shown one task of a store that also holds an open one
C12_Witness ==
    /\ res.cmd = "list" /\ res.arg.view = "done"
    /\ Len(res.rows) = 1
    /\ \E i \in 1..Len(Stored(file)) : ~Stored(file)[i].done
    /\ \E i \in 1..Len(Stored(file)) :
           Stored(file)[i].done /\ Stored(file)[i].id = res.rows[1].id

(* C13: clear --all saves the empty collection whatever the store held;
   clear --done saves exactly the tasks that are not done, unchanged and in
   their order, and no done task; after it list --done shows nothing and
   list --open shows what it showed before. *)
C13_Clear ==
    [][(Ran("clear") /\ Readable(file)) =>
          LET old == Stored(file)
              new == Stored(file')
              open == {i \in 1..Len(old) : ~old[i].done}
          IN  IF res'.arg.clear_all
              THEN file' = JsonFile(<<>>) /\ res'.saves = 1 /\ res'.exit = 0
              ELSE res'.arg.clear_done =>
                  /\ res'.saves = 1 /\ res'.exit = 0
                  /\ Readable(file')
                  /\ Len(new) = Cardinality(open)
                  /\ \A k \in 1..Len(new) : ~new[k].done
                  /\ \A i \in open :
                         new[Cardinality({j \in open : j <= i})] = old[i]
                  /\ list_tasks(file', now', "done").res.rows = <<>>
                  /\ list_tasks(file', now', "open").res.rows
                         = list_tasks(file, now, "open").res.rows]_vars

\* clear --done has just run and left open tasks behind a removed first task
C13_Witness ==
    /\ res.cmd = "clear" /\ res.arg.clear_done /\ ~res.arg.clear_all
    /\ res.msg = "Cleared completed tasks."
    /\ Len(Stored(file)) >= 1
    /\ Stored(file)[1].id > 1

MutatingCommands == {"add", "done", "delete", "clear"}

(* C14 as stated: every run of add, done, delete or clear (with a flag)
   either completes and saves exactly once, or fails before any save. *)
C14_SaveOnceOrFail ==
    [][\A cmd \in MutatingCommands :
          (Ran(cmd) /\ (cmd = "clear" => res'.arg.clear_done \/ res'.arg.clear_all)) =>
              \/ res'.exit = 0 /\ res'.saves = 1
              \/ res'.exit # 0 /\ res'.saves = 0 /\ file' = file]_vars

\* the runs that complete without anything to change
NoOp(r) == r.msg \in {"already done", "Nothing to do. Use --done or --all."}

(* C14 as amended: every run of add, done, delete or clear either completes,
   saving exactly once, or nothing at all when there is nothing to change
   (done on a task already done, clear without a flag), or fails (not found,
   corrupt file, rejected command line) before any save: a failed run never
   changes the file, so the next run finds it as it was. *)
C14_SaveOnceOrNothing ==
    [][\A cmd \in MutatingCommands :
          Ran(cmd) =>
              /\ res'.saves \in {0, 1}
              /\ res'.exit \in {0, 1, 2}
              /\ res'.exit # 0 => res'.saves = 0 /\ file' = file
              /\ (res'.exit = 0 /\ ~NoOp(res')) => res'.saves = 1
              /\ NoOp(res') => res'.saves = 0 /\ file' = file
              /\ file' # file => res'.exit = 0 /\ res'.saves = 1]_vars

\* a delete has just failed on a store that holds tasks
C14_Witness ==
    /\ res.cmd = "delete" /\ res.exit = 1 /\ res.saves = 0
    /\ Len(Stored(file)) >= 1

---------------------------------------------------------------------------
\* The file is what a save wrote: a JSON array of records with all six fields
Saved(f) ==
    /\ f.exists /\ f.json
    /\ \A i \in 1..Len(f.data) : DOMAIN f.data[i] = TaskFields

(* C17: for every valid collection X, saving X, loading it and saving again
   gives the same file content, and the load returns X field for field, an
   absent due still absent, the order kept.  Checked on every file a save
   has written (file = save(X)): load reads it, returns each record's six
   fields as stored, and saving what was loaded gives the file again. *)
C17_RoundTrip ==
    Saved(file) =>
        LET l == load_tasks(file)
        IN  /\ l.ok
            /\ Len(l.tasks) = Len(file.data)
            /\ \A i \in 1..Len(l.tasks) :
                   /\ l.tasks[i].id = file.data[i].id
                   /\ l.tasks[i].text = file.data[i].text
                   /\ l.tasks[i].created = file.data[i].created
                   /\ l.tasks[i].due = file.data[i].due
                   /\ l.tasks[i].priority = file.data[i].priority
                   /\ l.tasks[i].done = file.data[i].done
            /\ save_tasks(l.tasks) = file
            /\ load_tasks(save_tasks(l.tasks)).tasks = l.tasks

\* a saved file with a task without due date, a task with one, and a done task
C17_Witness ==
    /\ Saved(file)
    /\ \E i \in 1..Len(file.data) : file.data[i].due = None
    /\ \E i \in 1..Len(file.data) : file.data[i].due = Some(Date2099)
    /\ \E i \in 1..Len(file.data) : file.data[i].done

(* C18: after any sequence of commands from an empty store every stored task
   has a text that is not empty and has no leading or trailing whitespace,
   and a priority from 1 to 5; add of an empty or blank text never stores a
   task with empty text. *)
C18_TextAndPriority ==
    Readable(file) =>
        \A i \in 1..Len(Stored(file)) :
            LET t == Stored(file)[i]
            IN  /\ t.text # <<>>
                /\ ~IsSpace(t.text[1])
                /\ ~IsSpace(t.text[Len(t.text)])
                /\ t.priority \in 1..5

(* C19: from an empty store, after any sequence of commands the persisted
   sequence is in insertion order, strictly ascending by id: no command
   reorders it, and load returns the tasks in the order of the file. *)
C19_InsertionOrder ==
    Readable(file) =>
        LET tasks == Stored(file)
        IN  /\ \A i, j \in 1..Len(tasks) : i < j => tasks[i].id < tasks[j].id
            /\ Len(tasks) = Len(file.data)
            /\ \A i \in 1..Len(tasks) : tasks[i].id = file.data[i].id

\* three tasks are stored and the second has just been marked done
C19_Witness ==
    /\ res.cmd = "done" /\ res.msg = "Marked done"
    /\ Len(Stored(file)) = 3
    /\ Stored(file)[2].id = res.arg.id

(* C20: done on a stored task that is not done sets the done flag of that
   task and saves: its id, text, created, due and priority, every other
   task, and size and order of the store are unchanged.  No command sets
   done back to false: a done task that is still stored after a step is
   still done. *)
C20_DoneOnlySetsFlag ==
    [][/\ (/\ Ran("done")
           /\ Readable(file)
           /\ \E i \in 1..Len(Stored(file)) :
                  Stored(file)[i].id = res'.arg.id /\ ~Stored(file)[i].done)
          => LET old == Stored(file)
                 new == Stored(file')
             IN  /\ res'.exit = 0 /\ res'.saves = 1
                 /\ Len(new) = Len(old)
                 /\ \A k \in 1..Len(old) :
                        /\ new[k].id = old[k].id
                        /\ new[k].text = old[k].text
                        /\ new[k].created = old[k].created
                        /\ new[k].due = old[k].due
                        /\ new[k].priority = old[k].priority
                        /\ new[k].done = (old[k].done \/ old[k].id = res'.arg.id)
       /\ (Readable(file) /\ Readable(file'))
          => \A i \in 1..Len(Stored(file)), k \in 1..Len(Stored(file')) :
                 (Stored(file)[i].done /\ Stored(file')[k].id = Stored(file)[i].id)
                     => Stored(file')[k].done]_vars

\* the first of two tasks has just been marked done, the other is open
C20_Witness ==
    /\ res.cmd = "done" /\ res.msg = "Marked done"
    /\ Len(Stored(file)) = 2
    /\ Stored(file)[1].id = res.arg.id /\ Stored(file)[1].done
    /\ ~Stored(file)[2].done

\* Instance p takes the step from pc value a to pc value b
Moves(p, a, b) == inst[p].pc = a /\ inst'[p].pc = b

(* C15: when two instances interleave their read-modify-write cycles on one
   file, the last writer wins: once an instance has written, the file is
   exactly the collection that instance computed from its own earlier read
   (so the other instance's update can be lost), and no interleaving leaves
   a file that mixes parts of the two writes. *)
C15_LastWriterWins ==
    [][\A p \in Procs :
           Moves(p, "opened", "exited") => file' = inst[p].out.file]_vars

(* C16: an instance that crashes between its load and its save loses only
   its own update, the file still being what it was when the operation
   started; and the file is a complete, parsable task collection in every
   state, crashes included (stated here for the states in which no instance
   is in the middle of its write_text). *)
C16_CrashKeepsFile ==
    [][/\ \A p, q \in Procs :
              (Moves(p, "loaded", "crashed") /\ inst[q].pc = "start")
                  => file' = inst[p].read
       /\ (\A p \in Procs : inst'[p].pc # "opened") => Readable(file')]_vars

====
